---- MODULE Spec2Model ----
(***************************************************************************)
(* The loss functions of youtube-8m-simnet/losses.py as a state machine.   *)
(*                                                                         *)
(* A process starts with its FLAGS parsed (Init); it then calls            *)
(* calculate_loss of one loss variant (one action per variant), and may    *)
(* call the same variant a second time with identical arguments (Repeat).  *)
(*                                                                         *)
(* Tensor elements are exact rationals <<n, d>> (d > 0, lowest terms), so  *)
(* that the formulas below are the source's formulas and not a rescaling   *)
(* of them.  tf.log and tf.exp are fixed-point routines with a resolution  *)
(* of one millionth; tf.sqrt is exact on the perfect squares the inputs    *)
(* are drawn from.  Tensors are sequences (a matrix is a sequence of       *)
(* rows); class indices are 0-based as in the source.                      *)
(***************************************************************************)
EXTENDS Integers, Sequences, FiniteSets, TLC

VARIABLES FLAGS, pc, call, again, stdout

vars == <<FLAGS, pc, call, again, stdout>>

\* ------------------------------------------------------------------------
\* Bounds of the model
\* ------------------------------------------------------------------------

\* Largest FLAGS.batch_size a process is started with.
MaxBatch == 2

\* Largest FLAGS.num_classes a process is started with.
MaxClasses == 3

\* ------------------------------------------------------------------------
\* float32 values as exact rationals
\* ------------------------------------------------------------------------

Abs(x) == IF x < 0 THEN -x ELSE x

RECURSIVE GCD(_, _)
GCD(a, b) == IF b = 0 THEN a ELSE GCD(b, a % b)

\* n/d in lowest terms with a positive denominator.
Rat(n, d) ==
  IF d = 1 THEN <<n, 1>>
  ELSE LET s == IF d < 0 THEN -1 ELSE 1
           g == GCD(Abs(n), Abs(d))
       IN  <<(s * n) \div g, (s * d) \div g>>

R(n) == <<n, 1>>

RNeg(a) == <<-a[1], a[2]>>

RAdd(a, b) ==
  IF a[2] = b[2] THEN Rat(a[1] + b[1], a[2])
  ELSE LET g == GCD(a[2], b[2])
           L == (a[2] \div g) * b[2]
       IN  Rat(a[1] * (L \div a[2]) + b[1] * (L \div b[2]), L)

RSub(a, b) == RAdd(a, RNeg(b))

RMul(a, b) ==
  IF a[1] = 0 \/ b[1] = 0 THEN <<0, 1>>
  ELSE IF a[2] = 1 /\ b[2] = 1 THEN <<a[1] * b[1], 1>>
  ELSE LET g1 == GCD(Abs(a[1]), b[2])
           g2 == GCD(Abs(b[1]), a[2])
       IN  <<(a[1] \div g1) * (b[1] \div g2), (a[2] \div g2) * (b[2] \div g1)>>

\* a / b for b # 0.
RDiv(a, b) == RMul(a, IF b[1] < 0 THEN <<-b[2], -b[1]>> ELSE <<b[2], b[1]>>)

RLess(a, b) == IF a[2] = b[2] THEN a[1] < b[1] ELSE RSub(a, b)[1] < 0

RLeq(a, b) == ~RLess(b, a)

\* tf.maximum on two scalars.
maximum(a, b) == IF RLess(a, b) THEN b ELSE a

minimum(a, b) == IF RLess(b, a) THEN b ELSE a

\* ------------------------------------------------------------------------
\* Reductions and elementwise helpers
\* ------------------------------------------------------------------------

RECURSIVE SeqSum(_)
SeqSum(s) == IF s = <<>> THEN R(0) ELSE RAdd(Head(s), SeqSum(Tail(s)))

RECURSIVE SeqMin(_)
SeqMin(s) == IF Len(s) = 1 THEN s[1] ELSE minimum(Head(s), SeqMin(Tail(s)))

\* A sequence given as a function, evaluated once (TLC evaluates [i \in S |-> e]
\* anew at every application; the concatenation is a tuple of values).
Eval(f) == f \o <<>>

\* A tensor: its rank (0 a scalar, 1 a vector, 2 a matrix) and its elements.
Tensor(r, v) == [rank |-> r, value |-> v]

\* The example and class indices of a [batch, num_classes] tensor.
Rows(t) == 1..Len(t.value)

Cols(t) == 1..Len(t.value[1])

\* An elementwise result over the cells of a [batch, num_classes] tensor.
Elementwise(t, f) ==
  Tensor(t.rank, Eval([i \in Rows(t) |-> Eval([j \in Cols(t) |-> f[i, j]])]))

\* tf.reduce_sum(t, 1): axis 1 is summed away.
reduce_sum(t) ==
  Tensor(t.rank - 1, Eval([i \in 1..Len(t.value) |-> SeqSum(t.value[i])]))

\* tf.reduce_min(t, axis=1, keep_dims=True): one minimum per row, the rank kept.
reduce_min(t) ==
  Tensor(t.rank, Eval([i \in 1..Len(t.value) |-> <<SeqMin(t.value[i])>>]))

\* tf.reduce_mean(t) of a vector: every axis is reduced, the result is a scalar.
reduce_mean(t) == Tensor(0, RDiv(SeqSum(t.value), R(Len(t.value))))

\* tf.negative
negative(t) ==
  IF t.rank = 1 THEN Tensor(1, Eval([i \in 1..Len(t.value) |-> RNeg(t.value[i])]))
  ELSE Elementwise(t, [i \in Rows(t), j \in Cols(t) |-> RNeg(t.value[i][j])])

\* tf.cast(labels, tf.float32)
cast_float(labels) == Elementwise(labels,
  [i \in Rows(labels), j \in Cols(labels) |-> R(labels.value[i][j])])

\* ------------------------------------------------------------------------
\* tf.log, tf.exp, tf.sqrt
\* ------------------------------------------------------------------------

\* floor(a * 10^digits / c) for 0 <= a < c, by long division.
RECURSIVE LongDiv(_, _, _, _)
LongDiv(r, c, q, digits) ==
  IF digits = 0 THEN q
  ELSE LongDiv((r * 10) % c, c, q * 10 + ((r * 10) \div c), digits - 1)

\* floor(a * b / 10^6) for fixed-point a, b below one.
FMul(a, b) == ((a \div 1000) * b + ((a % 1000) * b) \div 1000) \div 1000

\* z + z^3/3 + z^5/5 + ... in fixed point, from the term z^k on.
RECURSIVE AtanhSeries(_, _, _)
AtanhSeries(term, z2, k) ==
  IF term = 0 THEN 0 ELSE (term \div k) + AtanhSeries(FMul(term, z2), z2, k + 2)

\* ln(n/d) in millionths for n/d in [1, 2): 2 * atanh((n - d) / (n + d)).
LogMantissa(n, d) ==
  LET z == LongDiv(n - d, n + d, 0, 6)
  IN  2 * AtanhSeries(z, FMul(z, z), 1)

\* ln(n/d) in millionths, n, d > 0: halve or double into [1, 2), ln 2 per step.
RECURSIVE LogFixed(_, _)
LogFixed(n, d) ==
  IF n < d THEN LogFixed(2 * n, d) - 693147
  ELSE IF n >= 2 * d THEN LogFixed(n, 2 * d) + 693147
  ELSE LogMantissa(n, d)

\* tf.log of a positive value.
log(x) == Rat(LogFixed(x[1], x[2]), 1000000)

\* e^(a/b) in millionths: 1 + x + x^2/2! + ..., the term x^k/k! rounded toward 0.
RECURSIVE ExpSeries(_, _, _, _)
ExpSeries(term, a, b, k) ==
  IF term = 0 THEN 0
  ELSE term + ExpSeries((IF (term < 0) # (a < 0) THEN -1 ELSE 1)
                          * ((Abs(term) * Abs(a)) \div (b * k)),
                        a, b, k + 1)

\* tf.exp, as tf.nn.softmax applies it.
exp(x) == Rat(ExpSeries(1000000, x[1], x[2], 1), 1000000)

\* The integer square root.
ISqrt(n) == CHOOSE r \in 0..n : r * r <= n /\ n < (r + 1) * (r + 1)

\* tf.sqrt, exact on the squares of rationals.
sqrt(x) == <<ISqrt(x[1]), ISqrt(x[2])>>

\* ------------------------------------------------------------------------
\* The loss variants
\* ------------------------------------------------------------------------

\* BaseLoss.calculate_loss: raise NotImplementedError().
BaseLoss == "NotImplementedError"

\* Seeded fault: WeightedCrossEntropyLoss with the epsilon of SoftmaxLoss
\* (10e-8) in place of its own.
WeightedCrossEntropyLoss_SoftmaxEpsilon(predictions, labels) ==
  LET epsilon == Rat(10, 100000000)
      float_labels == cast_float(labels)
      cross_entropy_loss == Elementwise(predictions,
        [i \in Rows(predictions), j \in Cols(predictions) |->
        RAdd(RMul(RMul(FLAGS.false_negative_punishment, float_labels.value[i][j]),
                  log(RAdd(predictions.value[i][j], epsilon))),
             RMul(RMul(FLAGS.false_positive_punishment,
                       RSub(R(1), float_labels.value[i][j])),
                  log(RAdd(RSub(R(1), predictions.value[i][j]), epsilon))))])
  IN  reduce_mean(reduce_sum(negative(cross_entropy_loss)))

\* Seeded fault: WeightedCrossEntropyLoss with the two punishments exchanged.
WeightedCrossEntropyLoss_SwappedPunishments(predictions, labels) ==
  LET epsilon == Rat(10, 1000000)
      float_labels == cast_float(labels)
      cross_entropy_loss == Elementwise(predictions,
        [i \in Rows(predictions), j \in Cols(predictions) |->
        RAdd(RMul(RMul(FLAGS.false_positive_punishment, float_labels.value[i][j]),
                  log(RAdd(predictions.value[i][j], epsilon))),
             RMul(RMul(FLAGS.false_negative_punishment,
                       RSub(R(1), float_labels.value[i][j])),
                  log(RAdd(RSub(R(1), predictions.value[i][j]), epsilon))))])
  IN  reduce_mean(reduce_sum(negative(cross_entropy_loss)))

\* WeightedCrossEntropyLoss.calculate_loss(predictions, labels)
WeightedCrossEntropyLoss(predictions, labels) ==
  LET false_positive_punishment == FLAGS.false_positive_punishment
      false_negative_punishment == FLAGS.false_negative_punishment
      epsilon == Rat(10, 1000000)
      float_labels == cast_float(labels)
      cross_entropy_loss == Elementwise(predictions,
        [i \in Rows(predictions), j \in Cols(predictions) |->
        RAdd(RMul(RMul(false_negative_punishment, float_labels.value[i][j]),
                  log(RAdd(predictions.value[i][j], epsilon))),
             RMul(RMul(false_positive_punishment,
                       RSub(R(1), float_labels.value[i][j])),
                  log(RAdd(RSub(R(1), predictions.value[i][j]), epsilon))))])
  IN  reduce_mean(reduce_sum(negative(cross_entropy_loss)))

\* Seeded fault: CrossEntropyLoss without the tf.negative of line 126.
CrossEntropyLoss_NotNegated(predictions, labels) ==
  LET epsilon == Rat(10, 1000000)
      float_labels == cast_float(labels)
      cross_entropy_loss == Elementwise(predictions,
        [i \in Rows(predictions), j \in Cols(predictions) |->
        RAdd(RMul(float_labels.value[i][j],
                  log(RAdd(predictions.value[i][j], epsilon))),
             RMul(RSub(R(1), float_labels.value[i][j]),
                  log(RAdd(RSub(R(1), predictions.value[i][j]), epsilon))))])
  IN  reduce_mean(reduce_sum(cross_entropy_loss))

\* CrossEntropyLoss.calculate_loss(predictions, labels)
CrossEntropyLoss(predictions, labels) ==
  LET epsilon == Rat(10, 1000000)
      float_labels == cast_float(labels)
      cross_entropy_loss == Elementwise(predictions,
        [i \in Rows(predictions), j \in Cols(predictions) |->
        RAdd(RMul(float_labels.value[i][j],
                  log(RAdd(predictions.value[i][j], epsilon))),
             RMul(RSub(R(1), float_labels.value[i][j]),
                  log(RAdd(RSub(R(1), predictions.value[i][j]), epsilon))))])
  IN  reduce_mean(reduce_sum(negative(cross_entropy_loss)))

\* Seeded fault: HingeLoss with the labels left in {0, 1}, not rescaled to
\* {-1, +1}.
HingeLoss_UnscaledLabels(predictions, labels, b) ==
  LET float_labels == cast_float(labels)
      hinge_loss == Elementwise(predictions,
        [i \in Rows(predictions), j \in Cols(predictions) |->
        maximum(R(0), RSub(b, RMul(float_labels.value[i][j],
                                   predictions.value[i][j])))])
  IN  reduce_mean(reduce_sum(hinge_loss))

\* HingeLoss.calculate_loss(predictions, labels, b)
HingeLoss(predictions, labels, b) ==
  LET float_labels == cast_float(labels)
      all_zeros == Elementwise(float_labels,
        [i \in Rows(float_labels), j \in Cols(float_labels) |-> R(0)])
      all_ones == Elementwise(float_labels,
        [i \in Rows(float_labels), j \in Cols(float_labels) |-> R(1)])
      sign_labels == Elementwise(float_labels,
        [i \in Rows(float_labels), j \in Cols(float_labels) |->
        RSub(RMul(R(2), float_labels.value[i][j]), all_ones.value[i][j])])
      hinge_loss == Elementwise(predictions,
        [i \in Rows(predictions), j \in Cols(predictions) |->
        maximum(all_zeros.value[i][j],
                RSub(RMul(b, all_ones.value[i][j]),
                     RMul(sign_labels.value[i][j], predictions.value[i][j])))])
  IN  reduce_mean(reduce_sum(hinge_loss))

\* Seeded fault: RealHingeLoss with the two scores of a pair exchanged
\* (b - pred + col_pred).
RealHingeLoss_SwappedPair(predictions, labels, b) ==
  LET float_labels == cast_float(labels)
      n == Len(predictions.value[1])
      summed == Tensor(1,
        Eval([i \in 1..Len(predictions.value) |->
          SeqSum(Eval([j \in 1..n |->
            SeqSum(Eval([k \in 1..n |->
              RMul(maximum(R(0), RAdd(RSub(b, predictions.value[i][k]),
                                      predictions.value[i][j])),
                   RMul(float_labels.value[i][j],
                        RSub(R(1), float_labels.value[i][k])))]))]))]))
  IN  reduce_mean(summed)

\* RealHingeLoss.calculate_loss(predictions, labels, b)
RealHingeLoss(predictions, labels, b) ==
  LET float_labels == cast_float(labels)
      truth == float_labels
      other == Elementwise(float_labels,
        [i \in Rows(float_labels), j \in Cols(float_labels) |->
        RSub(R(1), float_labels.value[i][j])])
      \* einsum("ij,ik->ijk", truth, other)
      mask(i, j, k) == RMul(truth.value[i][j], other.value[i][k])
      \* expand_dims(predictions, 2) and expand_dims(predictions, 1), broadcast
      col_pred(i, j, k) == predictions.value[i][j]
      pred(i, j, k) == predictions.value[i][k]
      loss(i, j, k) == maximum(R(0), RAdd(RSub(b, col_pred(i, j, k)), pred(i, j, k)))
      \* reduce_sum(loss * mask, [1, 2]): both class axes are summed away
      summed == Tensor(predictions.rank + 1 - 2,
        Eval([i \in 1..Len(predictions.value) |->
          SeqSum(Eval([j \in 1..Len(predictions.value[i]) |->
            SeqSum(Eval([k \in 1..Len(predictions.value[i]) |->
              RMul(loss(i, j, k), mask(i, j, k))]))]))]))
      hinge_loss == reduce_mean(summed)
  IN  hinge_loss

\* tf.nn.softmax over the class axis.
softmax(predictions) ==
  LET e == Elementwise(predictions,
    [i \in Rows(predictions), j \in Cols(predictions) |-> exp(predictions.value[i][j])])
  IN  Elementwise(predictions, [i \in Rows(predictions), j \in Cols(predictions) |->
        RDiv(e.value[i][j], SeqSum(e.value[i]))])

\* SoftmaxLoss.calculate_loss(predictions, labels)
SoftmaxLoss(predictions, labels) ==
  LET epsilon == Rat(10, 100000000)
      float_labels == cast_float(labels)
      label_rowsum(i) == maximum(SeqSum(float_labels.value[i]), epsilon)
      norm_float_labels == Elementwise(float_labels,
        [i \in Rows(float_labels), j \in Cols(float_labels) |->
        RDiv(float_labels.value[i][j], label_rowsum(i))])
      softmax_outputs == softmax(predictions)
      softmax_loss == negative(reduce_sum(Elementwise(predictions,
        [i \in Rows(predictions), j \in Cols(predictions) |->
        RMul(norm_float_labels.value[i][j], log(softmax_outputs.value[i][j]))])))
  IN  reduce_mean(softmax_loss)

\* ------------------------------------------------------------------------
\* CosineHingeLoss
\* ------------------------------------------------------------------------

\* The result of a call that raised instead of returning.
NoResult == Tensor(-1, <<>>)

\* The dot product of two vectors, as the einsum contractions over k compute it.
Dot(x, y) == SeqSum(Eval([k \in 1..Len(x) |-> RMul(x[k], y[k])]))

\* x * rsqrt(max(sum(x^2), 1e-12)) for one vector x, computed as
\* x / max(sqrt(sum(x^2)), 1e-6), the same value.
Normalized(x) ==
  LET norm == maximum(sqrt(Dot(x, x)), Rat(1, 1000000))
  IN  Eval([k \in 1..Len(x) |-> RDiv(x[k], norm)])

\* tf.nn.l2_normalize(t, dim=1) of a matrix: every row is normalized.
l2_normalize(t) ==
  Tensor(t.rank, Eval([i \in 1..Len(t.value) |-> Normalized(t.value[i])]))

\* einsum("ik,jk->ij", normalized_predictions, normalized_positives)
sim_pos(normalized_predictions, normalized_positives) ==
  Tensor(2, Eval([i \in 1..Len(normalized_predictions.value) |->
              Eval([j \in 1..Len(normalized_positives.value) |->
                Dot(normalized_predictions.value[i],
                    normalized_positives.value[j])])]))

\* Seeded fault: min_sim without the shift by 1.0, reduce_min(sim_pos * mask).
min_sim_Unshifted(sim, mask) ==
  reduce_min(Elementwise(sim, [i \in Rows(sim), j \in Cols(sim) |->
               RMul(sim.value[i][j], mask.value[i][j])]))

\* reduce_min((sim_pos - 1.0) * mask, axis=1, keep_dims=True) + 1.0
min_sim(sim, mask) ==
  LET shifted == Elementwise(sim, [i \in Rows(sim), j \in Cols(sim) |->
                   RMul(RSub(sim.value[i][j], R(1)), mask.value[i][j])])
      lowest == reduce_min(shifted)
  IN  Elementwise(lowest,
    [i \in Rows(lowest), j \in Cols(lowest) |-> RAdd(lowest.value[i][j], R(1))])

\* stop_gradient(cast(sim_pos > min_sim, float32) * reverse_mask)
mask_wrong(sim, mask) ==
  LET reverse_mask == Elementwise(mask,
    [i \in Rows(mask), j \in Cols(mask) |-> RSub(R(1), mask.value[i][j])])
      lowest == min_sim(sim, mask)
  IN  Elementwise(sim, [i \in Rows(sim), j \in Cols(sim) |->
        RMul(IF RLess(lowest.value[i][1], sim.value[i][j]) THEN R(1) ELSE R(0),
             reverse_mask.value[i][j])])

\* tf.where(sample_label > 0)[:, 0]: the 0-based positions of the positives.
where(sample_label) ==
  SelectSeq(Eval([j \in 1..Len(sample_label) |-> j - 1]),
            LAMBDA c : sample_label[c + 1] > 0)

\* tf.tile(v, [n]): n copies of v, one after the other.
RECURSIVE tile(_, _)
tile(v, n) == IF n = 0 THEN <<>> ELSE v \o tile(v, n - 1)

\* Seeded fault: the tiled indices without the truncation [:num_classes].
expanded_indices_Untruncated(sample_label, num_classes) ==
  tile(where(sample_label), num_classes)

\* tf.tile(indices[:,0], [num_classes])[:num_classes]
expanded_indices(sample_label, num_classes) ==
  LET tiled == tile(where(sample_label), num_classes)
  IN  SubSeq(tiled, 1, IF Len(tiled) < num_classes THEN Len(tiled) ELSE num_classes)

\* Whether tf.gather(params, indices) reads outside params.
gather_out_of_range(params, indices) ==
  \E j \in 1..Len(indices) : indices[j] < 0 \/ indices[j] >= Len(params)

\* tf.gather(params, indices) where it returns: the GPU kernel yields 0 for an
\* index outside params (the CPU kernel raises InvalidArgumentError instead).
gather(params, indices) ==
  Eval([j \in 1..Len(indices) |->
    IF indices[j] >= 0 /\ indices[j] < Len(params) THEN params[indices[j] + 1] ELSE 0])

\* The loop over sample_labels: one row of resampled class indices per example.
positive_samples(int_labels, num_classes, rand_arrange) ==
  Eval([i \in 1..Len(int_labels) |->
    gather(expanded_indices(int_labels[i], num_classes), rand_arrange[i])])

\* tf.nn.l2_normalize(tf.nn.embedding_lookup(positives, positive_samples), dim=2):
\* one normalized embedding per example and class slot.
normalized_sample_positives(positives, samples) ==
  Tensor(3, Eval([i \in 1..Len(samples) |->
              Eval([j \in 1..Len(samples[i]) |->
                Normalized(positives.value[samples[i][j] + 1])])]))

\* einsum("ik,ijk->ij", normalized_predictions, normalized_sample_positives)
sim_sample_pos(normalized_predictions, sample_positives) ==
  Tensor(2, Eval([i \in 1..Len(normalized_predictions.value) |->
              Eval([j \in 1..Len(sample_positives.value[i]) |->
                Dot(normalized_predictions.value[i],
                    sample_positives.value[i][j])])]))

\* CosineHingeLoss.calculate_loss(predictions, positives, labels, margin,
\* adaptive), with the outcome of tf.random_uniform (rand_arrange) and the
\* kernel that runs an out-of-range gather (oob: "raise" or "zero").
CosineHingeLoss(predictions, positives, labels, margin, adaptive, rand_arrange, oob) ==
  LET batch_size == FLAGS.batch_size
      num_classes == FLAGS.num_classes
      normalized_predictions == l2_normalize(predictions)
      normalized_positives == l2_normalize(positives)
      sim == sim_pos(normalized_predictions, normalized_positives)
      mask == cast_float(labels)
      reverse_mask == Elementwise(mask,
        [i \in Rows(mask), j \in Cols(mask) |-> RSub(R(1), mask.value[i][j])])
      wrong == mask_wrong(sim, mask)
      int_labels == labels.value
      tables == Eval([i \in 1..batch_size |->
                      expanded_indices(int_labels[i], num_classes)])
      raises == \E i \in 1..batch_size : gather_out_of_range(tables[i], rand_arrange[i])
      samples == positive_samples(int_labels, num_classes, rand_arrange)
      sim_sample == sim_sample_pos(normalized_predictions,
                                   normalized_sample_positives(positives, samples))
      hinge_loss == Elementwise(sim, [i \in Rows(sim), j \in Cols(sim) |->
        maximum(RAdd(RSub(sim.value[i][j], sim_sample.value[i][j]), margin), R(0))])
      adaptive_loss == reduce_mean(reduce_sum(Elementwise(hinge_loss,
        [i \in Rows(hinge_loss), j \in Cols(hinge_loss) |->
        RMul(hinge_loss.value[i][j], wrong.value[i][j])])))
      origin_loss == reduce_mean(reduce_sum(Elementwise(hinge_loss,
        [i \in Rows(hinge_loss), j \in Cols(hinge_loss) |->
        RMul(hinge_loss.value[i][j], reverse_mask.value[i][j])])))
      loss == IF RLess(R(0), adaptive)
              THEN Tensor(IF adaptive_loss.rank > origin_loss.rank
                          THEN adaptive_loss.rank ELSE origin_loss.rank,
                          RAdd(RMul(adaptive, adaptive_loss.value), origin_loss.value))
              ELSE hinge_loss
  IN  IF raises /\ oob = "raise"
      THEN [raised |-> "InvalidArgumentError", result |-> NoResult]
      ELSE [raised |-> "", result |-> loss]

\* ------------------------------------------------------------------------
\* The inputs the calls are made with
\* ------------------------------------------------------------------------

\* (false_negative_punishment, false_positive_punishment): the defaults, and
\* a pair of unequal weights.
Punishments == {<<R(1), R(1)>>, <<R(2), Rat(1, 2)>>}

FlagValues ==
  {[false_negative_punishment |-> w[1], false_positive_punishment |-> w[2],
    num_classes |-> n, batch_size |-> b] :
     w \in Punishments, n \in 1..MaxClasses, b \in 1..MaxBatch}

\* The label rows that go with a label row r in a batch: r itself, its
\* complement, and the row without a positive label.
Companions(r) ==
  {r, Eval([j \in 1..Len(r) |-> 1 - r[j]]), Eval([j \in 1..Len(r) |-> 0])}

\* Label matrices of shape [batch, n]: the rows alternate between a label row
\* r1, any row of {0,1}^n, and one of its companions.
LabelMatrices(batch, n) ==
  UNION {{Tensor(2, Eval([i \in 1..batch |-> IF i % 2 = 1 THEN Eval(r1) ELSE r2])) :
            r2 \in Companions(Eval(r1))} : r1 \in [1..n -> {0, 1}]}

\* Prediction matrices of shape [batch, n]: two neighbouring levels of a list,
\* alternating over the cells like the colours of a chessboard.
PredictionMatrices(levels, batch, n) ==
  {Tensor(2, Eval([i \in 1..batch |-> Eval([j \in 1..n |->
      IF (i + j) % 2 = 0 THEN levels[s] ELSE levels[(s % Len(levels)) + 1]])])) :
     s \in 1..Len(levels)}

\* Probabilities in (0,1): within 10e-6 of 0 and of 1, at 10e-6 and 1 - 10e-6,
\* and in between.
ProbLevels ==
  <<Rat(1, 1000000), Rat(10, 1000000), Rat(9, 10), Rat(1, 10),
    Rat(999990, 1000000), Rat(999999, 1000000)>>

\* Scores for the hinge losses.
ScoreLevels == <<Rat(1, 2), Rat(-1, 2), R(1), Rat(4, 5), Rat(3, 5), R(-1)>>

\* Logits for the softmax loss.
LogitLevels == <<R(0), R(1), R(-1), R(2), Rat(1, 2)>>

\* Embedding vectors of integer length, and the zero vector.
EmbedVecs ==
  <<<<R(3), R(4)>>, <<R(4), R(3)>>, <<R(-3), R(4)>>, <<R(6), R(8)>>, <<R(0), R(0)>>>>

\* count vectors of EmbedVecs in a row, from the one at position s on.
Embeddings(count, s) ==
  Tensor(2, Eval([i \in 1..count |-> EmbedVecs[((s + i - 2) % Len(EmbedVecs)) + 1]]))

\* Outcomes of tf.random_uniform([num_classes], 0, num_classes) for each
\* example: indices in [0, n), every index at every slot for some outcome.
Draws(batch, n) ==
  {Eval([i \in 1..batch |-> Eval([j \in 1..n |-> (s + i + j) % n])]) :
     s \in 0..(n - 1)}

\* The draws of a second call, given the first call's: the same outcome again,
\* or the outcome with every index one further (modulo n).
Redraws(first, n) ==
  {first, Eval([i \in 1..Len(first) |->
            Eval([j \in 1..Len(first[i]) |-> (first[i][j] + 1) % n])])}

\* What an out-of-range gather does: raise (the CPU kernel) or yield 0 (the GPU
\* kernel); "none" where every example has a positive label and none happens.
GatherKernels(labels) ==
  IF \E i \in 1..Len(labels.value) : where(labels.value[i]) = <<>>
  THEN {"raise", "zero"} ELSE {"none"}

\* ------------------------------------------------------------------------
\* The state machine
\* ------------------------------------------------------------------------

NoCall ==
  [variant |-> "", predictions |-> <<>>, positives |-> <<>>, labels |-> <<>>,
   params |-> <<>>, rand_arrange |-> <<>>, oob |-> "none",
   raised |-> "", result |-> NoResult]

Returned(t) == [raised |-> "", result |-> t]

Init ==
  /\ FLAGS \in FlagValues
  /\ pc = "start"
  /\ call = NoCall
  /\ again = [rand_arrange |-> <<>>, raised |-> "", result |-> NoResult]
  /\ stdout = 0

\* The record of a call: its arguments, the draw it made, and its outcome.
Called(variant, predictions, positives, labels, params, rand_arrange, oob, outcome) ==
  [variant |-> variant, predictions |-> predictions, positives |-> positives,
   labels |-> labels, params |-> params, rand_arrange |-> rand_arrange,
   oob |-> oob, raised |-> outcome.raised, result |-> outcome.result]

CallBaseLoss ==
  /\ pc = "start"
  /\ call' = Called("BaseLoss", <<>>, <<>>, <<>>, <<>>, <<>>, "none",
                    [raised |-> BaseLoss, result |-> NoResult])
  /\ pc' = "called"
  /\ UNCHANGED <<FLAGS, again, stdout>>

CallWeightedCrossEntropyLoss ==
  /\ pc = "start"
  /\ \E labels \in LabelMatrices(FLAGS.batch_size, FLAGS.num_classes),
        predictions \in PredictionMatrices(ProbLevels, FLAGS.batch_size, FLAGS.num_classes) :
       call' = Called("WeightedCrossEntropyLoss", predictions, <<>>, labels, <<>>,
                      <<>>, "none",
                      Returned(WeightedCrossEntropyLoss(predictions, labels)))
  /\ pc' = "called"
  /\ UNCHANGED <<FLAGS, again, stdout>>

CallCrossEntropyLoss ==
  /\ pc = "start"
  /\ \E labels \in LabelMatrices(FLAGS.batch_size, FLAGS.num_classes),
        predictions \in PredictionMatrices(ProbLevels, FLAGS.batch_size, FLAGS.num_classes) :
       call' = Called("CrossEntropyLoss", predictions, <<>>, labels, <<>>,
                      <<>>, "none", Returned(CrossEntropyLoss(predictions, labels)))
  /\ pc' = "called"
  /\ UNCHANGED <<FLAGS, again, stdout>>

\* Seeded fault: HingeLoss with a print statement like the one of line 78.
CallHingeLoss_Prints ==
  /\ pc = "start"
  /\ \E labels \in LabelMatrices(FLAGS.batch_size, FLAGS.num_classes),
        predictions \in PredictionMatrices(ScoreLevels, FLAGS.batch_size, FLAGS.num_classes),
        b \in {R(1), Rat(1, 2)} :
       call' = Called("HingeLoss", predictions, <<>>, labels, [b |-> b],
                      <<>>, "none", Returned(HingeLoss(predictions, labels, b)))
  /\ stdout' = stdout + 1
  /\ pc' = "called"
  /\ UNCHANGED <<FLAGS, again>>

CallHingeLoss ==
  /\ pc = "start"
  /\ \E labels \in LabelMatrices(FLAGS.batch_size, FLAGS.num_classes),
        predictions \in PredictionMatrices(ScoreLevels, FLAGS.batch_size, FLAGS.num_classes),
        b \in {R(1), Rat(1, 2)} :
       call' = Called("HingeLoss", predictions, <<>>, labels, [b |-> b],
                      <<>>, "none", Returned(HingeLoss(predictions, labels, b)))
  /\ pc' = "called"
  /\ UNCHANGED <<FLAGS, again, stdout>>

CallRealHingeLoss ==
  /\ pc = "start"
  /\ \E labels \in LabelMatrices(FLAGS.batch_size, FLAGS.num_classes),
        predictions \in PredictionMatrices(ScoreLevels, FLAGS.batch_size, FLAGS.num_classes),
        b \in {Rat(2, 10), R(1)} :
       call' = Called("RealHingeLoss", predictions, <<>>, labels, [b |-> b],
                      <<>>, "none", Returned(RealHingeLoss(predictions, labels, b)))
  /\ pc' = "called"
  /\ UNCHANGED <<FLAGS, again, stdout>>

CallSoftmaxLoss ==
  /\ pc = "start"
  /\ \E labels \in LabelMatrices(FLAGS.batch_size, FLAGS.num_classes),
        predictions \in PredictionMatrices(LogitLevels, FLAGS.batch_size, FLAGS.num_classes) :
       call' = Called("SoftmaxLoss", predictions, <<>>, labels, <<>>,
                      <<>>, "none", Returned(SoftmaxLoss(predictions, labels)))
  /\ pc' = "called"
  /\ UNCHANGED <<FLAGS, again, stdout>>

\* The call prints normalized_sample_positives (line 78) whatever it returns.
CallCosineHingeLoss ==
  /\ pc = "start"
  /\ \E labels \in LabelMatrices(FLAGS.batch_size, FLAGS.num_classes),
        s \in {1, 2},
        adaptive \in {R(5), R(0), R(-1)},
        rand_arrange \in Draws(FLAGS.batch_size, FLAGS.num_classes) :
       \E oob \in GatherKernels(labels) :
         LET predictions == Embeddings(FLAGS.batch_size, s)
             positives == Embeddings(FLAGS.num_classes, s + 1)
             margin == Rat(2, 10)
         IN  call' = Called("CosineHingeLoss", predictions, positives, labels,
                            [margin |-> margin, adaptive |-> adaptive],
                            rand_arrange, oob,
                            CosineHingeLoss(predictions, positives, labels, margin,
                                            adaptive, rand_arrange, oob))
  /\ stdout' = stdout + 1
  /\ pc' = "called"
  /\ UNCHANGED <<FLAGS, again>>

\* calculate_loss of the variant of call c, with c's arguments, under the draw
\* rand_arrange.
Invoke(c, rand_arrange) ==
  CASE c.variant = "BaseLoss" -> [raised |-> BaseLoss, result |-> NoResult]
    [] c.variant = "WeightedCrossEntropyLoss" ->
         Returned(WeightedCrossEntropyLoss(c.predictions, c.labels))
    [] c.variant = "CrossEntropyLoss" ->
         Returned(CrossEntropyLoss(c.predictions, c.labels))
    [] c.variant = "HingeLoss" ->
         Returned(HingeLoss(c.predictions, c.labels, c.params.b))
    [] c.variant = "RealHingeLoss" ->
         Returned(RealHingeLoss(c.predictions, c.labels, c.params.b))
    [] c.variant = "SoftmaxLoss" ->
         Returned(SoftmaxLoss(c.predictions, c.labels))
    [] c.variant = "CosineHingeLoss" ->
         CosineHingeLoss(c.predictions, c.positives, c.labels, c.params.margin,
                         c.params.adaptive, rand_arrange, c.oob)

\* A second call of the same variant with identical arguments, in the same
\* process; CosineHingeLoss draws again.
Repeat ==
  /\ pc = "called"
  /\ \E rand_arrange \in (IF call.variant = "CosineHingeLoss"
                           THEN Redraws(call.rand_arrange, FLAGS.num_classes)
                           ELSE {<<>>}) :
       again' = [rand_arrange |-> rand_arrange] @@ Invoke(call, rand_arrange)
  /\ stdout' = stdout + (IF call.variant = "CosineHingeLoss" THEN 1 ELSE 0)
  /\ pc' = "repeated"
  /\ UNCHANGED <<FLAGS, call>>

Next ==
  \/ CallBaseLoss
  \/ CallWeightedCrossEntropyLoss
  \/ CallCrossEntropyLoss
  \/ CallHingeLoss
  \/ CallRealHingeLoss
  \/ CallSoftmaxLoss
  \/ CallCosineHingeLoss
  \/ Repeat

Spec == Init /\ [][Next]_vars

\* ------------------------------------------------------------------------
\* Properties: notation
\* ------------------------------------------------------------------------

\* The call made is one of the concrete variants and has returned.
HasReturned == pc # "start" /\ call.variant # "BaseLoss" /\ call.raised = ""

Batch == Len(call.labels.value)

Classes == Len(call.labels.value[1])

\* Prediction and label of the cell (example i, class j), 1-based.
P(i, j) == call.predictions.value[i][j]

Y(i, j) == call.labels.value[i][j]

\* f[1] + ... + f[n]
RECURSIVE Sum(_, _)
Sum(f, n) == IF n = 0 THEN R(0) ELSE RAdd(Sum(f, n - 1), f[n])

\* max(0, x)
Pos(x) == IF x[1] > 0 THEN x ELSE R(0)

\* a < b for two rationals with small denominators.
Below(a, b) == a[1] * b[2] < b[1] * a[2]

\* Every element of a returned tensor (a scalar or a matrix) is >= 0.
NonNegative(t) ==
  IF t.rank = 0 THEN t.value[1] >= 0
  ELSE \A i \in 1..Len(t.value) : \A j \in 1..Len(t.value[i]) : t.value[i][j][1] >= 0

\* ------------------------------------------------------------------------
\* C1
\* ------------------------------------------------------------------------

\* C1: calculate_loss of every concrete variant returns one scalar (rank 0) for
\* every value of its keyword parameters, every value of CosineHingeLoss's
\* adaptive included, never a [batch, num_classes] array.
C1_ScalarResult == HasReturned => call.result.rank = 0

\* ------------------------------------------------------------------------
\* C2
\* ------------------------------------------------------------------------

\* The cross-entropy variants stay inside the logarithms' non-positive range:
\* p + epsilon <= 1 on every positive cell and 1 - p + epsilon <= 1 on every
\* negative cell, epsilon = 10e-6.
LogArgumentsAtMostOne ==
  \A i \in 1..Batch : \A j \in 1..Classes :
    IF Y(i, j) = 1
    THEN RLeq(RAdd(P(i, j), Rat(10, 1000000)), R(1))
    ELSE RLeq(RAdd(RSub(R(1), P(i, j)), Rat(10, 1000000)), R(1))

\* C2 as stated: for all valid inputs (labels in {0,1}, predictions strictly
\* between 0 and 1 for the cross-entropy variants, any score for the hinge
\* variants) the value every variant returns is non-negative.
C2_NonNegative == HasReturned => NonNegative(call.result)

\* C2, amended: every value a variant returns is non-negative, for the
\* cross-entropy variants provided no logarithm's argument exceeds 1.
C2_NonNegativeWhenLogArgumentsAtMostOne ==
  HasReturned =>
    ((call.variant \in {"WeightedCrossEntropyLoss", "CrossEntropyLoss"}
        => LogArgumentsAtMostOne)
      => NonNegative(call.result))

\* A cross-entropy call has returned a positive loss for predictions that
\* reach the ends of the admitted range (10e-6 and 1 - 10e-6).
C2_Witness ==
  /\ pc # "start"
  /\ call.variant = "CrossEntropyLoss"
  /\ LogArgumentsAtMostOne
  /\ P(1, 1) = Rat(999990, 1000000)
  /\ Y(1, 1) = 1
  /\ call.result.value[1] > 0

\* ------------------------------------------------------------------------
\* C3
\* ------------------------------------------------------------------------

\* C3: with false_negative_punishment = false_positive_punishment = 1, what
\* WeightedCrossEntropyLoss returned is what CrossEntropyLoss computes for the
\* same predictions and labels, and the other way round.
C3_CrossEntropyIsWeightedWithUnitWeights ==
  (pc # "start" /\ FLAGS.false_negative_punishment = R(1)
                /\ FLAGS.false_positive_punishment = R(1)) =>
    /\ call.variant = "WeightedCrossEntropyLoss" =>
         call.result = CrossEntropyLoss(call.predictions, call.labels)
    /\ call.variant = "CrossEntropyLoss" =>
         call.result = WeightedCrossEntropyLoss(call.predictions, call.labels)

\* WeightedCrossEntropyLoss has returned a non-zero loss under unit weights for
\* a batch of two examples with a positive and a negative label.
C3_Witness ==
  /\ pc # "start"
  /\ call.variant = "WeightedCrossEntropyLoss"
  /\ FLAGS.false_negative_punishment = R(1)
  /\ FLAGS.false_positive_punishment = R(1)
  /\ Batch = 2
  /\ \E j, k \in 1..Classes : Y(1, j) = 1 /\ Y(1, k) = 0
  /\ call.result.value # R(0)

\* ------------------------------------------------------------------------
\* C4
\* ------------------------------------------------------------------------

WeightedCost(eps) ==
  RDiv(Sum([i \in 1..Batch |-> Sum([j \in 1..Classes |->
         RNeg(RAdd(RMul(RMul(FLAGS.false_negative_punishment, R(Y(i, j))),
                        log(RAdd(P(i, j), eps))),
                   RMul(RMul(FLAGS.false_positive_punishment, R(1 - Y(i, j))),
                        log(RAdd(RSub(R(1), P(i, j)), eps)))))],
         Classes)], Batch),
       R(Batch))

\* C5 as stated: WeightedCrossEntropyLoss returns the batch mean of the summed
\* cell costs with the constant inside both logarithms equal to 1e-6.
C5_CostWithEpsilonOneMillionth ==
  (pc # "start" /\ call.variant = "WeightedCrossEntropyLoss") =>
    call.result = Tensor(0, WeightedCost(Rat(1, 1000000)))

\* C5, amended: WeightedCrossEntropyLoss returns the batch mean of the summed
\* cell costs with the constant inside both logarithms equal to 10e-6, that is
\* one hundred-thousandth.
C5_CostWithEpsilonTenMillionths ==
  (pc # "start" /\ call.variant = "WeightedCrossEntropyLoss") =>
    call.result = Tensor(0, WeightedCost(Rat(10, 1000000)))

\* WeightedCrossEntropyLoss has returned a positive loss under unequal
\* punishments for a batch of two examples with both kinds of label.
C5_Witness ==
  /\ pc # "start"
  /\ call.variant = "WeightedCrossEntropyLoss"
  /\ FLAGS.false_negative_punishment = R(2)
  /\ FLAGS.false_positive_punishment = Rat(1, 2)
  /\ Batch = 2
  /\ \E j, k \in 1..Classes : Y(1, j) = 1 /\ Y(1, k) = 0
  /\ call.result.value[1] > 0

\* ------------------------------------------------------------------------
\* C6
\* ------------------------------------------------------------------------

\* s * p for the cell (i, j), s = 2y - 1.
SignedScore(i, j) == <<(2 * Y(i, j) - 1) * P(i, j)[1], P(i, j)[2]>>

\* C6: HingeLoss returns the batch mean of the per-example sum over classes of
\* max(0, b - s*p), s = 2y - 1; the loss is 0 exactly when s*p >= b on every
\* cell; predictions [[0.5, -0.5]], labels [[1, 0]], b = 1.0 give 1.0.
C6_HingeLossFormula ==
  (pc # "start" /\ call.variant = "HingeLoss") =>
    /\ call.result =
         Tensor(0, RDiv(Sum([i \in 1..Batch |-> Sum([j \in 1..Classes |->
                          Pos(RSub(call.params.b, SignedScore(i, j)))],
                          Classes)], Batch),
                        R(Batch)))
    /\ call.result.value = R(0) <=>
         \A i \in 1..Batch : \A j \in 1..Classes :
           ~Below(SignedScore(i, j), call.params.b)
    /\ (/\ call.predictions.value = <<<<Rat(1, 2), Rat(-1, 2)>>>>
        /\ call.labels.value = <<<<1, 0>>>>
        /\ call.params.b = R(1)) => call.result = Tensor(0, R(1))

\* HingeLoss has returned 1.0 for predictions [[0.5, -0.5]], labels [[1, 0]]
\* and b = 1.0.
C6_Witness ==
  /\ pc # "start"
  /\ call.variant = "HingeLoss"
  /\ call.predictions.value = <<<<Rat(1, 2), Rat(-1, 2)>>>>
  /\ call.labels.value = <<<<1, 0>>>>
  /\ call.params.b = R(1)
  /\ call.result = Tensor(0, R(1))

\* ------------------------------------------------------------------------
\* C7
\* ------------------------------------------------------------------------

\* The label row of example i is all-zero or all-one.
UniformRow(i) == \A j, k \in 1..Classes : Y(i, j) = Y(i, k)

\* The sum over the ordered pairs (j, k), j labelled 1 and k labelled 0, of
\* max(0, b - p[i][j] + p[i][k]).
PairCost(i) ==
  Sum([j \in 1..Classes |-> Sum([k \in 1..Classes |->
        IF Y(i, j) = 1 /\ Y(i, k) = 0
        THEN Pos(RAdd(RSub(call.params.b, P(i, j)), P(i, k)))
        ELSE R(0)],
        Classes)], Classes)

\* C7: RealHingeLoss returns the batch mean of the examples' pair costs; an
\* example whose label row is all-zero or all-one contributes exactly 0.
C7_RealHingeLossFormula ==
  (pc # "start" /\ call.variant = "RealHingeLoss") =>
    /\ call.result = Tensor(0, RDiv(Sum([i \in 1..Batch |-> PairCost(i)], Batch), R(Batch)))
    /\ call.result =
         Tensor(0, RDiv(Sum([i \in 1..Batch |->
                              IF UniformRow(i) THEN R(0) ELSE PairCost(i)],
                            Batch),
                        R(Batch)))

\* RealHingeLoss has returned a positive loss for a batch whose first example
\* has a positive and a negative class and whose second has no positive class.
C7_Witness ==
  /\ pc # "start"
  /\ call.variant = "RealHingeLoss"
  /\ Batch = 2
  /\ ~UniformRow(1)
  /\ UniformRow(2)
  /\ call.result.value[1] > 0

\* ------------------------------------------------------------------------
\* C8
\* ------------------------------------------------------------------------

\* sim_pos, min_sim and mask_wrong of the CosineHingeLoss call made.
CallSimPos == sim_pos(l2_normalize(call.predictions), l2_normalize(call.positives))

CallMinSim == min_sim(CallSimPos, cast_float(call.labels))

CallMaskWrong == mask_wrong(CallSimPos, cast_float(call.labels))

\* The classes (1-based columns) example i is labelled with.
LabelledColumns(i) == {j \in 1..Classes : Y(i, j) = 1}

\* C8: for every example i with a positive label, min_sim[i] is the least
\* sim_pos[i][j] over the classes j labelled 1, and mask_wrong[i][j] is 1
\* exactly when j is labelled 0 and sim_pos[i][j] > min_sim[i] (strictly),
\* else 0; no labelled class is marked as a hard negative.
C8_MinSimAndMaskWrong ==
  (pc # "start" /\ call.variant = "CosineHingeLoss") =>
    LET sim == CallSimPos.value
        lowest == CallMinSim.value
        wrong == CallMaskWrong.value
    IN  \A i \in 1..Batch : LabelledColumns(i) # {} =>
          /\ \E j \in LabelledColumns(i) : lowest[i][1] = sim[i][j]
          /\ \A j \in LabelledColumns(i) : ~Below(sim[i][j], lowest[i][1])
          /\ \A j \in 1..Classes :
               wrong[i][j] = IF Y(i, j) = 0 /\ Below(lowest[i][1], sim[i][j])
                             THEN R(1) ELSE R(0)
          /\ \A j \in LabelledColumns(i) : wrong[i][j] = R(0)

\* CosineHingeLoss was called with an example that has a positive label, a
\* negative class above min_sim (marked) and a negative class that is not
\* above min_sim (not marked).
C8_Witness ==
  /\ pc # "start"
  /\ call.variant = "CosineHingeLoss"
  /\ \E i \in 1..Batch :
       /\ LabelledColumns(i) # {}
       /\ \E j, k \in 1..Classes :
            /\ Y(i, j) = 0 /\ CallMaskWrong.value[i][j] = R(1)
            /\ Y(i, k) = 0 /\ CallMaskWrong.value[i][k] = R(0)

\* ------------------------------------------------------------------------
\* C9 and C10
\* ------------------------------------------------------------------------

\* The index table of example i that the random indices select from.
Table(i) == expanded_indices(call.labels.value[i], FLAGS.num_classes)

\* The classes (0-based, as where() yields them) example i is labelled with.
PositiveClasses(i) == {c \in 0..(Classes - 1) : Y(i, c + 1) = 1}

\* The number of entries of the table t that hold the class c.
Entries(t, c) == Cardinality({x \in 1..Len(t) : t[x] = c})

\* C9 as stated: every positive class of an example occupies the same number
\* of entries of the example's index table, whatever the number of positives.
C9_EqualShares ==
  (pc # "start" /\ call.variant = "CosineHingeLoss") =>
    \A i \in 1..Batch : \A c, d \in PositiveClasses(i) :
      Entries(Table(i), c) = Entries(Table(i), d)

\* C9, amended: for an example with k >= 1 positives the table has num_classes
\* entries, all of them positive classes of the example; a positive class
\* occupies num_classes \div k entries, and one more if fewer than
\* num_classes % k positive classes precede it: the shares are equal exactly
\* when k divides num_classes.  The resampled class of a slot is the table's
\* entry at the index drawn for the slot.
C9_SharesDifferByAtMostOne ==
  (pc # "start" /\ call.variant = "CosineHingeLoss") =>
    \A i \in 1..Batch :
      LET k == Cardinality(PositiveClasses(i))
          n == FLAGS.num_classes
      IN  k >= 1 =>
            /\ Len(Table(i)) = n
            /\ \A x \in 1..n : Table(i)[x] \in PositiveClasses(i)
            /\ \A c \in PositiveClasses(i) :
                 Entries(Table(i), c) =
                   (n \div k) + (IF Cardinality({d \in PositiveClasses(i) : d < c}) < n % k
                                 THEN 1 ELSE 0)
            /\ (\A c, d \in PositiveClasses(i) :
                  Entries(Table(i), c) = Entries(Table(i), d)) <=> (n % k = 0)
            /\ positive_samples(call.labels.value, n, call.rand_arrange)[i] =
                 [x \in 1..n |-> Table(i)[call.rand_arrange[i][x] + 1]]

\* CosineHingeLoss has returned for an example with two positives among three
\* classes, whose table holds the first positive twice and the second once.
C9_Witness ==
  /\ pc # "start"
  /\ call.variant = "CosineHingeLoss"
  /\ call.raised = ""
  /\ FLAGS.num_classes = 3
  /\ call.labels.value[1] = <<1, 0, 1>>
  /\ Table(1) = <<0, 2, 0>>

\* C10: for every label row, a row without a positive label included, and
\* every outcome of the draw, each random index lies within the example's
\* index table and selects a class labelled positive for the example; the
\* call does not fail on an index out of range.
C10_GatherInRange ==
  (pc # "start" /\ call.variant = "CosineHingeLoss") =>
    /\ call.raised = ""
    /\ \A i \in 1..Batch : \A x \in 1..FLAGS.num_classes :
         /\ call.rand_arrange[i][x] < Len(Table(i))
         /\ positive_samples(call.labels.value, FLAGS.num_classes,
                             call.rand_arrange)[i][x] \in PositiveClasses(i)

====
